---- MODULE Spec2Model ----
(***************************************************************************)
(* ATLAS library server (src/server.js): the item repository kept in       *)
(* library.json, its aggregate counters, and the upload directory.  The    *)
(* file holds two deployments of the same server (lines 1-510 and          *)
(* 512-710); `variant` says which one runs.  Every request handler is      *)
(* synchronous (fs.*Sync), so one request is one atomic step.  The          *)
(* document's lastUpdated stamp, which no handler reads, is left out.      *)
(* `io` says whether the data directory can be read and written: Spec      *)
(* keeps it healthy, SpecFault lets it fail.                               *)
(***************************************************************************)
EXTENDS Integers, Sequences, FiniteSets, TLC

\* ------------------------------------------------------------------ bounds
MaxSteps == 4      \* requests and clock ticks in one history
MaxRequests == 3   \* SpecConc: requests received in one history
MaxStored == 3     \* SpecQuery: items in the stored library
DefaultLimit == 50 \* parseInt(limit) || 50

\* ------------------------------------------------------- JavaScript values
\* An optional value: absent / undefined / null is <<>>, a value v is <<v>>.
None == <<>>
Some(v) == <<v>>

\* A string operand of `||`: undefined, null and "" are falsy.
M_Truthy_EmptyPasses(v) == v # None
Truthy(v) == v # None /\ v[1] # ""

\* v || d for an optional string v.
OrElse(v, d) == IF Truthy(v) THEN v[1] ELSE d

\* Array.prototype.findIndex on ids, 1-based; 0 stands for -1.
RECURSIVE FindFrom(_, _, _)
FindFrom(items, id, k) ==
    IF k > Len(items) THEN 0
    ELSE IF items[k].id = id THEN k
    ELSE FindFrom(items, id, k + 1)

FindIndex(items, id) == FindFrom(items, id, 1)

\* Array.prototype.unshift
M_Unshift_Pushes(s, e) == Append(s, e)
Unshift(s, e) == <<e>> \o s

\* Array.prototype.splice(index, 1)
Splice(s, k) == SubSeq(s, 1, k - 1) \o SubSeq(s, k + 1, Len(s))

\* ------------------------------------------------------------- input sets
TitleIn    == {None, Some(""), Some("A")}          \* req.body.title of a create
TypeIn     == {None, Some("link"), Some("file"), Some("video")}
PatchTitle == {Some("b")}                          \* req.body.title of an update

\* A request body of an update that holds no field.
NoPatch ==
    [title |-> None, description |-> None, category |-> None, tags |-> None,
     country |-> None, source |-> None, content |-> None, starred |-> None,
     url |-> None]

\* The update bodies of Spec: a title and nothing else.
TitlePatches == {[NoPatch EXCEPT !.title = t] : t \in PatchTitle}

\* The update bodies of SpecEdit: any of title, starred, country and url.
Patches ==
    {[NoPatch EXCEPT !.title = t, !.starred = st, !.country = c, !.url = u] :
        t \in {None} \cup PatchTitle, st \in {None, Some(TRUE)},
        c \in {None, Some("UA")}, u \in {None, Some("http://u")}}
MimeTypes  == {"application/pdf", "application/x-msdownload"}
OrigNames  == {"r.pdf"}                            \* req.file.originalname
Rands      == {0, 1}                               \* crypto.randomBytes()
Sizes      == {1, 2}                               \* req.file.size

\* ------------------------------------------------------------------ state
VARIABLES
    variant,   \* 1: lines 1-510, 2: lines 512-710
    library,   \* the document in library.json: [items, stats]
    uploads,   \* the filenames present in UPLOADS_DIR
    now,       \* the clock read by Date.now() and new Date()
    categories,\* the document in categories.json: its categories array
    tags,      \* the document in tags.json: its tags array
    io,        \* [read, write]: whether fs reads and writes of DATA_DIR succeed
    procs,     \* SpecConc: the requests received, each queued, loaded or done
    res,       \* the last response sent: [op, id, status, views]
    listed,    \* SpecQuery: the query and the body of the last list response
    reads,     \* history: per item of library.items, the gets that returned it
    steps      \* history: the steps taken so far

vars == <<variant, library, uploads, categories, tags, io, procs, now, res, listed, reads, steps>>

\* What the library routes never touch.
Rest == <<categories, tags, io, procs, listed>>

ZeroStats == [totalItems |-> 0, totalFiles |-> 0, totalLinks |-> 0, totalSize |-> 0]

\* The db the second variant falls back on when loadDB returns null.
EmptyDb == [items |-> <<>>, stats |-> ZeroStats]

Cat(id, name, icon, color) == [id |-> id, name |-> name, icon |-> icon, color |-> color]

\* The categories initDatabase seeds (lines 138-147, 573-582); the icons are
\* written by name and the a-umlaut of the second name as "ae".
DefaultCategories ==
    << Cat("conflicts", "Konflikte", "swords", "#ff3333"),
       Cat("military", "Militaer", "medal", "#ff6600"),
       Cat("politics", "Politik", "building", "#ffaa00"),
       Cat("intelligence", "Intelligence", "lens", "#00aaff"),
       Cat("maps", "Karten", "map", "#00ff00"),
       Cat("reports", "Berichte", "chart", "#aa00ff"),
       Cat("media", "Medien", "paper", "#ff00aa"),
       Cat("other", "Sonstiges", "folder", "#666666") >>

\* The tags initDatabase seeds (line 154; line 585 in the second variant).
DefaultTags ==
    IF variant = 1
    THEN <<"Ukraine", "Russia", "Israel", "Gaza", "Syria", "Iran", "NATO", "USA",
           "China", "Important", "Verified">>
    ELSE <<"Ukraine", "Russia", "Israel", "Gaza", "Syria", "Iran", "NATO", "Important">>

\* initDatabase on an empty data directory: what both deployments share.
InitStore ==
    /\ now = 0
    /\ library = [items |-> <<>>, stats |-> ZeroStats]
    /\ uploads = {}
    /\ categories = DefaultCategories
    /\ tags = DefaultTags
    /\ io = [read |-> TRUE, write |-> TRUE]
    /\ procs = <<>>
    /\ listed = None
    /\ res = [op |-> "none", id |-> None, status |-> 0, views |-> None]
    /\ reads = <<>>
    /\ steps = 0

\* initDatabase on an empty data directory, in the first deployment.
Init ==
    /\ variant = 1
    /\ now = 0
    /\ library = [items |-> <<>>, stats |-> ZeroStats]
    /\ uploads = {}
    /\ categories = DefaultCategories
    /\ tags = DefaultTags
    /\ io = [read |-> TRUE, write |-> TRUE]
    /\ procs = <<>>
    /\ listed = None
    /\ res = [op |-> "none", id |-> None, status |-> 0, views |-> None]
    /\ reads = <<>>
    /\ steps = 0

\* loadDB(DB_FILES.library): null when the file cannot be read or parsed.
loadDB == IF io.read THEN Some(library) ELSE None

\* saveDB(DB_FILES.library, db): the whole document is written, or the write
\* throws, false is returned and the file stays as it was.
saveDB(db) == library' = IF io.write THEN db ELSE library

\* The history follows what was persisted.
Noted(r) == reads' = IF io.write THEN r ELSE reads

\* generateId(): Date.now().toString(36) + crypto.randomBytes(4).toString('hex')
generateId(r) == <<now, r>>

\* multer's filename callback: randomBytes(8) hex + "_" + the original name with
\* every character outside [a-zA-Z0-9.-] replaced (the names drawn hold none).
storedFilename(rb, originalname) == <<rb, originalname>>

\* res.json(...): of the body sent, views is what is kept (None: no item in it).
Respond(op, id, status, body) ==
    res' = [op |-> op, id |-> id, status |-> status,
            views |-> IF body = None THEN None ELSE Some(body[1].views)]

\* An exception thrown in a handler: Express's default handler answers 500.
Throws(op, id) ==
    /\ Respond(op, id, 500, None)
    /\ UNCHANGED <<variant, library, uploads, now, reads>>

\* The clock advances between requests.
Tick ==
    /\ now' = now + 1
    /\ UNCHANGED <<variant, library, uploads, res, reads>>

\* ------------------------------------------------- POST /api/library
CreateBodies == [title : TitleIn, type : TypeIn]

\* The record built at lines 255-270 (623 in the second variant); the body
\* fields other than title and type are absent from the requests drawn here.
NewItem(body, id) ==
    [ id          |-> id,
      type        |-> OrElse(body.type, "note"),
      title       |-> body.title[1],
      description |-> "",
      url         |-> None,
      content     |-> None,
      category    |-> "other",
      tags        |-> <<>>,
      country     |-> None,
      source      |-> None,
      created     |-> now,
      updated     |-> None,
      views       |-> 0,
      starred     |-> FALSE,
      fileType    |-> None,
      file        |-> None,
      textPreview |-> None ]

\* A create that forgets the link counter.
M_StatsOnCreate_NoLinks(stats, type) == [stats EXCEPT !.totalItems = @ + 1]

\* db.stats.totalItems++; if (type === 'link') db.stats.totalLinks++;
StatsOnCreate(stats, type) ==
    [stats EXCEPT !.totalItems = @ + 1,
                  !.totalLinks = IF type = Some("link") THEN @ + 1 ELSE @]

Create(body, r) ==
    IF ~Truthy(body.title)
    THEN /\ Respond("create", None, 400, None)
         /\ UNCHANGED <<variant, library, uploads, now, reads>>
    ELSE IF loadDB = None /\ variant = 1
    THEN Throws("create", None)          \* db.items of null (line 272)
    ELSE LET old == IF loadDB = None THEN EmptyDb ELSE loadDB[1]    \* line 620
             newItem == NewItem(body, generateId(r))
             db == [old EXCEPT
                        !.items = Unshift(@, newItem),
                        !.stats = StatsOnCreate(@, body.type)]
         IN /\ saveDB(db)
            /\ Noted(IF loadDB = None THEN <<0>> ELSE Unshift(reads, 0))
            /\ Respond("create", Some(newItem.id), 200, Some(newItem))
            /\ UNCHANGED <<variant, uploads, now>>

\* ------------------------------------------------ GET /api/library/:id
\* A get that sends the item without counting the read.
M_Viewed_NotCounted(item) == item

\* item.views = (item.views || 0) + 1
Viewed(item) == [item EXCEPT !.views = @ + 1]

Get(id) ==
    LET k == IF loadDB = None THEN 0 ELSE FindIndex(library.items, id)   \* db?.items
    IN IF k = 0
       THEN /\ Respond("get", Some(id), 404, None)
            /\ UNCHANGED <<variant, library, uploads, now, reads>>
       ELSE LET item == Viewed(library.items[k])
            IN /\ saveDB([library EXCEPT !.items[k] = item])
               /\ Noted([reads EXCEPT ![k] = @ + 1])
               /\ Respond("get", Some(id), 200, Some(item))
               /\ UNCHANGED <<variant, uploads, now>>

\* --------------------------------------------- DELETE /api/library/:id
\* fs.unlinkSync of the item's blob, when it is there.
Unlink(dir, item) ==
    IF item.file # None THEN dir \ {item.file[1].filename} ELSE dir

\* A delete that forgets db.stats.totalItems--.
M_StatsOnDelete_KeepsTotal(stats, item) ==
    [stats EXCEPT
        !.totalFiles = IF item.file # None THEN @ - 1 ELSE @,
        !.totalSize  = IF item.file # None THEN @ - item.file[1].size ELSE @,
        !.totalLinks = IF item.type = "link" THEN @ - 1 ELSE @]

\* Lines 360-370: the counters taken back for the removed item.
StatsOnDelete(stats, item) ==
    [stats EXCEPT
        !.totalFiles = IF item.file # None THEN @ - 1 ELSE @,
        !.totalSize  = IF item.file # None THEN @ - item.file[1].size ELSE @,
        !.totalLinks = IF item.type = "link" THEN @ - 1 ELSE @,
        !.totalItems = @ - 1]

Delete(id) ==
    LET k == IF loadDB = None THEN 0 ELSE FindIndex(library.items, id)
    IN IF loadDB = None /\ variant = 1
       THEN Throws("delete", Some(id))   \* undefined === -1 fails, db.items of null
       ELSE IF k = 0
       THEN /\ Respond("delete", Some(id), 404, None)
            /\ UNCHANGED <<variant, library, uploads, now, reads>>
       ELSE LET item == library.items[k]
                db == [library EXCEPT
                           !.items = Splice(@, k),
                           !.stats = StatsOnDelete(@, item)]
            IN /\ uploads' = Unlink(uploads, item)
               /\ saveDB(db)
               /\ Noted(Splice(reads, k))
               /\ Respond("delete", Some(id), 200, None)
               /\ UNCHANGED <<variant, now>>

\* ------------------------------------------- POST /api/library/upload
\* String.prototype.includes on the media types drawn here.
Includes(m, w) ==
    <<m, w>> \in {<<"application/pdf", "pdf">>, <<"text/x-log", "text">>,
                  <<"kyiv", "kyiv">>, <<"kyiv map", "kyiv">>, <<"oslo", "oslo">>}

\* String.prototype.toLowerCase on the texts and search terms drawn here.
toLowerCase(s) ==
    CASE s = "Kyiv" -> "kyiv"
      [] s = "KYIV" -> "kyiv"
      [] s = "Oslo" -> "oslo"
      [] s = "Other" -> "other"
      [] s = "My Maps" -> "my maps"
      [] OTHER -> s

\* String.prototype.replace(/[^a-z0-9]/g, '-') on the lower-cased category
\* names drawn here.
Dashed(s) == IF s = "my maps" THEN "my-maps" ELSE s

\* The place of a title in the order of String.prototype.localeCompare:
\* letters first, and for equal letters lower case before upper case.
Collation(s) ==
    CASE s = "Kyiv" -> 1
      [] s = "oslo" -> 2
      [] s = "Oslo" -> 3
      [] OTHER -> 0

localeCompare(a, b) == Collation(a) - Collation(b)

\* parseInt on the query values drawn here; None stands for NaN, which is
\* also what an absent parameter parses to.
parseInt(v) ==
    IF v = None THEN None
    ELSE CASE v[1] = "0" -> Some(0)
           [] v[1] = "1" -> Some(1)
           [] v[1] = "2" -> Some(2)
           [] OTHER -> None

\* x || d for a number x: NaN and 0 are falsy.
NumOr(x, d) == IF x = None \/ x[1] = 0 THEN d ELSE x[1]

\* String.prototype.startsWith on the media types drawn here.
StartsWith(m, w) == <<m, w>> \in {<<"text/x-log", "text/">>}

\* String.prototype.endsWith on the original names drawn here.
EndsWith(f, w) == <<f, w>> \in {<<"r.pdf", ".pdf">>}

\* The allow-list of lines 71-90, cut to the media types drawn here.
allowedTypes == {"application/pdf"}

\* multer's fileFilter; the second variant configures none.
fileFilter(m) ==
    IF variant = 1 THEN m \in allowedTypes \/ StartsWith(m, "text/") ELSE TRUE

getFileType(m, f) ==
    IF variant = 1
    THEN CASE Includes(m, "pdf") -> "pdf"
           [] Includes(m, "word") \/ EndsWith(f, ".doc") \/ EndsWith(f, ".docx") -> "word"
           [] Includes(m, "excel") \/ Includes(m, "spreadsheet") -> "excel"
           [] Includes(m, "powerpoint") \/ Includes(m, "presentation") -> "powerpoint"
           [] StartsWith(m, "image/") -> "image"
           [] StartsWith(m, "video/") -> "video"
           [] StartsWith(m, "audio/") -> "audio"
           [] Includes(m, "text") \/ Includes(m, "markdown") -> "text"
           [] OTHER -> "file"
    ELSE CASE Includes(m, "pdf") -> "pdf"
           [] Includes(m, "word") -> "word"
           [] Includes(m, "excel") \/ Includes(m, "spreadsheet") -> "excel"
           [] StartsWith(m, "image/") -> "image"
           [] OTHER -> "file"

\* The first 500 characters of a text-like blob; only the first variant reads it.
extractTextPreview(m) ==
    IF variant = 1 /\ (StartsWith(m, "text/") \/ Includes(m, "json"))
    THEN Some("preview") ELSE None

UploadReqs ==
    [title : {None}, originalname : OrigNames, mimetype : MimeTypes, size : Sizes]

\* The record built at lines 291-313 (635-641 in the second variant).
NewFileItem(req, id, filename) ==
    [ id          |-> id,
      type        |-> "file",
      title       |-> OrElse(req.title, req.originalname),
      description |-> "",
      url         |-> None,
      content     |-> None,
      category    |-> "other",
      tags        |-> <<>>,
      country     |-> None,
      source      |-> None,
      created     |-> now,
      updated     |-> None,
      views       |-> 0,
      starred     |-> FALSE,
      fileType    |-> Some(getFileType(req.mimetype, req.originalname)),
      file        |-> Some([originalName |-> req.originalname,
                            filename     |-> filename,
                            mimetype     |-> req.mimetype,
                            size         |-> req.size]),
      textPreview |-> extractTextPreview(req.mimetype) ]

\* An upload that counts the file but not its bytes.
M_StatsOnUpload_NoSize(stats, size) ==
    [stats EXCEPT !.totalItems = @ + 1, !.totalFiles = @ + 1]

\* db.stats.totalItems++; totalFiles++; totalSize += req.file.size
StatsOnUpload(stats, size) ==
    [stats EXCEPT !.totalItems = @ + 1,
                  !.totalFiles = @ + 1,
                  !.totalSize  = @ + size]

\* A request that carries no file part.
UploadNoFile ==
    /\ Respond("upload", None, 400, None)
    /\ UNCHANGED <<variant, library, uploads, now, reads>>

Upload(req, rb, r) ==
    IF ~fileFilter(req.mimetype)
    THEN \* multer passes the filter's error on: nothing is stored
         /\ Respond("upload", None, 500, None)
         /\ UNCHANGED <<variant, library, uploads, now, reads>>
    ELSE LET filename == storedFilename(rb, req.originalname)
             old == IF loadDB = None THEN EmptyDb ELSE loadDB[1]    \* line 633
             newItem == NewFileItem(req, generateId(r), filename)
             db == [old EXCEPT
                      !.items = Unshift(@, newItem),
                      !.stats = StatsOnUpload(@, req.size)]
         IN /\ uploads' = uploads \cup {filename}    \* multer, before the handler
            /\ IF loadDB = None /\ variant = 1
               THEN \* db.items of null (line 315): 500, the blob stays
                    /\ Respond("upload", None, 500, None)
                    /\ UNCHANGED <<library, reads>>
               ELSE /\ saveDB(db)
                    /\ Noted(IF loadDB = None THEN <<0>> ELSE Unshift(reads, 0))
                    /\ Respond("upload", Some(newItem.id), 200, Some(newItem))
            /\ UNCHANGED <<variant, now>>

\* ------------------------------------------------ PUT /api/library/:id
\* An update that rebuilds the item and loses its read counter.
M_Patched_WritesUrl(item, body) ==
    [item EXCEPT !.title   = IF body.title # None THEN body.title[1] ELSE @,
                 !.starred = IF body.starred # None THEN body.starred[1] ELSE @,
                 !.country = IF variant = 1 /\ body.country # None THEN body.country ELSE @,
                 !.url     = IF body.url # None THEN body.url ELSE @,
                 !.updated = Some(now)]

M_Patched_ResetsViews(item, body) ==
    [item EXCEPT !.title   = IF body.title # None THEN body.title[1] ELSE @,
                 !.updated = Some(now),
                 !.views   = 0]

\* Lines 332-343 (654-660): each field the handler destructures is written
\* when the body holds it; the second variant does not destructure country
\* and source; req.body.url is never read.
Patched(item, body) ==
    [item EXCEPT
        !.title       = IF body.title # None THEN body.title[1] ELSE @,
        !.description = IF body.description # None THEN body.description[1] ELSE @,
        !.category    = IF body.category # None THEN body.category[1] ELSE @,
        !.tags        = IF body.tags # None THEN body.tags[1] ELSE @,
        !.country     = IF variant = 1 /\ body.country # None THEN body.country ELSE @,
        !.source      = IF variant = 1 /\ body.source # None THEN body.source ELSE @,
        !.content     = IF body.content # None THEN body.content ELSE @,
        !.starred     = IF body.starred # None THEN body.starred[1] ELSE @,
        !.updated     = Some(now)]

Update(id, body) ==
    LET k == IF loadDB = None THEN 0 ELSE FindIndex(library.items, id)
    IN IF loadDB = None /\ variant = 1
       THEN Throws("update", Some(id))   \* undefined === -1 fails, db.items of null
       ELSE IF k = 0
       THEN /\ Respond("update", Some(id), 404, None)
            /\ UNCHANGED <<variant, library, uploads, now, reads>>
       ELSE LET item == Patched(library.items[k], body)
            IN /\ saveDB([library EXCEPT !.items[k] = item])
               /\ Respond("update", Some(id), 200, Some(item))
               /\ UNCHANGED <<variant, uploads, now, reads>>

\* ---------------------------------- GET /api/library, GET /api/search
\* Both load the document, filter a copy and respond; neither calls saveDB.
List ==
    /\ Respond("list", None, IF loadDB = None /\ variant = 1 THEN 500 ELSE 200, None)
    /\ UNCHANGED <<variant, library, uploads, now, reads>>

\* The ids a client asks for: those generated so far and one never generated.
IdsIn == {library.items[k].id : k \in 1 .. Len(library.items)} \cup {<<now + 1, 0>>}

\* One more step of a history of at most MaxSteps steps.
Counted == steps < MaxSteps /\ steps' = steps + 1

Next ==
    \/ Counted /\ Tick /\ UNCHANGED Rest
    \/ Counted /\ UNCHANGED Rest
               /\ \E body \in CreateBodies, r \in Rands : Create(body, r)
    \/ Counted /\ UploadNoFile /\ UNCHANGED Rest
    \/ Counted /\ UNCHANGED Rest
               /\ \E req \in UploadReqs, rb \in Rands, r \in Rands : Upload(req, rb, r)
    \/ Counted /\ List /\ UNCHANGED Rest
    \/ Counted /\ UNCHANGED Rest /\ \E id \in IdsIn : Get(id)
    \/ Counted /\ UNCHANGED Rest
               /\ \E id \in IdsIn, body \in TitlePatches : Update(id, body)
    \/ Counted /\ UNCHANGED Rest /\ \E id \in IdsIn : Delete(id)

\* The deployment is either variant; the data directory is fresh.
InitAny == variant \in {1, 2} /\ InitStore

\* Creating only, with every kind of body.
NextCreate ==
    \/ Counted /\ Tick /\ UNCHANGED Rest
    \/ Counted /\ UNCHANGED Rest
               /\ \E body \in CreateBodies, r \in Rands : Create(body, r)

SpecCreate == InitAny /\ [][NextCreate]_vars

\* Creating notes and editing them, with update bodies of several fields.
NextEdit ==
    \/ Counted /\ Tick /\ UNCHANGED Rest
    \/ Counted /\ UNCHANGED Rest
               /\ \E r \in Rands : Create([title |-> Some("A"), type |-> None], r)
    \/ Counted /\ UNCHANGED Rest
               /\ \E id \in IdsIn, body \in Patches : Update(id, body)

SpecEdit == InitAny /\ [][NextEdit]_vars

\* The data directory starts or stops failing: readFileSync / JSON.parse
\* throw in loadDB (line 106), writeFileSync throws in saveDB (line 117).
Fault ==
    /\ io' \in [read : BOOLEAN, write : BOOLEAN] \ {io}
    /\ UNCHANGED <<variant, library, uploads, categories, tags, procs, now, res, listed, reads>>

\* The library routes on a data directory that may fail.
NextFault ==
    \/ Counted /\ Fault
    \/ Counted /\ Tick /\ UNCHANGED Rest
    \/ Counted /\ UNCHANGED Rest
               /\ \E r \in Rands : Create([title |-> Some("A"), type |-> None], r)
    \/ Counted /\ UNCHANGED Rest
               /\ \E req \in UploadReqs, rb \in Rands, r \in Rands : Upload(req, rb, r)
    \/ Counted /\ List /\ UNCHANGED Rest
    \/ Counted /\ UNCHANGED Rest /\ \E id \in IdsIn : Get(id)
    \/ Counted /\ UNCHANGED Rest
               /\ \E id \in IdsIn, body \in TitlePatches : Update(id, body)
    \/ Counted /\ UNCHANGED Rest /\ \E id \in IdsIn : Delete(id)

SpecFault == InitAny /\ [][NextFault]_vars

\* ------------------------------------------------ requests in flight
\* The handlers at a finer grain: a request is received, its handler loads
\* the document, then mutates it, saves it and answers.
ConcReqs ==
    [kind : {"create"}, r : Rands, id : {None}]
        \cup [kind : {"get"}, r : {0}, id : {Some(<<0, r>>) : r \in Rands}]

\* The socket hands a request to the event loop; met records whether another
\* request was unanswered while this one was.
Receive(req) ==
    LET busy == \E i \in DOMAIN procs : procs[i].pc # "done"
    IN /\ Len(procs) < MaxRequests
       /\ procs' = Append([i \in DOMAIN procs |->
                              [procs[i] EXCEPT !.met = @ \/ procs[i].pc # "done"]],
                          [kind |-> req.kind, r |-> req.r, id |-> req.id,
                           pc |-> "queued", db |-> None, met |-> busy])
       /\ UNCHANGED <<variant, library, uploads, categories, tags, io, now, res, listed, reads, steps>>

\* No handler is between its loadDB and its saveDB: the handlers call
\* readFileSync and writeFileSync and never yield to the event loop.
M_CallStackEmpty_Yields == TRUE
CallStackEmpty == \A i \in DOMAIN procs : procs[i].pc # "loaded"

\* const db = loadDB(DB_FILES.library), the first statement of the handler.
Load(i) ==
    /\ procs[i].pc = "queued"
    /\ CallStackEmpty
    /\ procs' = [procs EXCEPT ![i].pc = "loaded", ![i].db = loadDB]
    /\ UNCHANGED <<variant, library, uploads, categories, tags, io, now, res, listed, reads, steps>>

\* The rest of the handler, on the db it loaded: lines 255-277 of a create
\* of a note titled A, lines 237-245 of a get.
Commit(i) ==
    LET p == procs[i]
        db == p.db[1]
        newItem == NewItem([title |-> Some("A"), type |-> None], generateId(p.r))
        k == FindIndex(db.items, p.id[1])
    IN /\ p.pc = "loaded"
       /\ procs' = [procs EXCEPT ![i].pc = "done", ![i].db = None]
       /\ IF p.kind = "create"
          THEN /\ saveDB([db EXCEPT !.items = Unshift(@, newItem),
                                    !.stats = StatsOnCreate(@, None)])
               /\ reads' = Unshift(reads, 0)
               /\ Respond("create", Some(newItem.id), 200, Some(newItem))
          ELSE IF k = 0
          THEN /\ Respond("get", p.id, 404, None)
               /\ UNCHANGED <<library, reads>>
          ELSE /\ saveDB([db EXCEPT !.items[k] = Viewed(@)])
               /\ reads' = [reads EXCEPT ![k] = @ + 1]
               /\ Respond("get", p.id, 200, Some(Viewed(db.items[k])))
       /\ UNCHANGED <<variant, uploads, categories, tags, io, now, listed, steps>>

NextConc ==
    \/ \E req \in ConcReqs : Receive(req)
    \/ \E i \in DOMAIN procs : Load(i)
    \/ \E i \in DOMAIN procs : Commit(i)

SpecConc == Init /\ [][NextConc]_vars

\* ------------------------------------------------ GET /api/library, in full
\* if (search) items = items.filter(...): lines 203-211; the second variant
\* looks at the title only (line 605).
Matches(item, s) ==
    IF variant = 1
    THEN \/ Includes(toLowerCase(item.title), s)
         \/ Includes(toLowerCase(item.description), s)
         \/ \E k \in DOMAIN item.tags : Includes(toLowerCase(item.tags[k]), s)
         \/ item.content # None /\ Includes(toLowerCase(item.content[1]), s)
    ELSE Includes(toLowerCase(item.title), toLowerCase(s))

\* Lines 203-214 (605-607): each filter applies when its parameter is truthy;
\* the second variant has no tag filter.
Filtered(items, q) ==
    LET Keep(item) ==
          /\ Truthy(q.search) =>
                Matches(item, IF variant = 1 THEN toLowerCase(q.search[1]) ELSE q.search[1])
          /\ Truthy(q.category) => item.category = q.category[1]
          /\ (variant = 1 /\ Truthy(q.tag)) =>
                \E k \in DOMAIN item.tags : item.tags[k] = q.tag[1]
          /\ Truthy(q.type) => item.type = q.type[1]
    IN SelectSeq(items, Keep)

\* The comparator of lines 216-223; the second variant always sorts newest
\* first (line 608).
M_Compare_AlwaysNewest(sort, a, b) == b.created - a.created
Compare(sort, a, b) ==
    IF variant = 1 /\ sort = Some("oldest") THEN a.created - b.created
    ELSE IF variant = 1 /\ sort = Some("title") THEN localeCompare(a.title, b.title)
    ELSE b.created - a.created

\* Array.prototype.sort is stable: x goes behind every element that does
\* not compare greater than it.
RECURSIVE Inserted(_, _, _)
Inserted(sorted, x, sort) ==
    IF sorted = <<>> THEN <<x>>
    ELSE IF Compare(sort, Head(sorted), x) <= 0
    THEN <<Head(sorted)>> \o Inserted(Tail(sorted), x, sort)
    ELSE <<x>> \o sorted

RECURSIVE Sorted(_, _)
Sorted(items, sort) ==
    IF items = <<>> THEN <<>>
    ELSE Inserted(Sorted(SubSeq(items, 1, Len(items) - 1), sort), items[Len(items)], sort)

\* Array.prototype.slice(start, end) for 0 <= start <= end.
Slice(s, start, end) ==
    SubSeq(s, start + 1, IF end < Len(s) THEN end ELSE Len(s))

Queries ==
    [search : {None, Some("KYIV")}, category : {None}, tag : {None}, type : {None},
     sort : {None, Some("oldest"), Some("title"), Some("views")},
     offset : {None, Some("1")},
     limit : {None, Some("0"), Some("2")}]

\* GET /api/library with its response body kept.
ListItems(q) ==
    IF loadDB = None /\ variant = 1
    THEN Throws("list", None) /\ listed' = None
    ELSE LET db == IF loadDB = None THEN EmptyDb ELSE loadDB[1]
             items == Sorted(Filtered(db.items, q), q.sort)
             start == NumOr(parseInt(q.offset), 0)
             count == NumOr(parseInt(q.limit), DefaultLimit)
         IN /\ listed' = Some(IF variant = 1
                              THEN [q |-> q, items |-> Slice(items, start, start + count),
                                    total |-> Len(items),
                                    offset |-> Some(start), limit |-> Some(count)]
                              ELSE [q |-> q, items |-> items, total |-> Len(items),
                                    offset |-> None, limit |-> None])
            /\ Respond("list", None, 200, None)
            /\ UNCHANGED <<variant, library, uploads, now, reads>>

\* An item as a create or an import stored it.
StoredItem(title, created, description, tgs, content) ==
    [NewItem([title |-> Some(title), type |-> None], <<created, 0>>) EXCEPT
        !.created = created, !.description = description,
        !.tags = tgs, !.content = content]

StoredItems ==
    { StoredItem("Kyiv", 0, "", <<>>, None),
      StoredItem("oslo", 1, "Kyiv", <<>>, None),
      StoredItem("Oslo", 2, "", <<"Kyiv">>, None),
      StoredItem("Oslo", 0, "", <<>>, Some("kyiv map")) }

\* The libraries of up to MaxStored of these items, in any order: an import
\* stores the items in the order it is given.
StoredLists == UNION {[1 .. n -> StoredItems] : n \in 0 .. MaxStored}

InitQuery ==
    /\ variant \in {1, 2}
    /\ now = 0
    /\ \E items \in StoredLists :
          library = [items |-> items,
                     stats |-> [ZeroStats EXCEPT !.totalItems = Len(items)]]
    /\ uploads = {}
    /\ categories = DefaultCategories
    /\ tags = DefaultTags
    /\ io = [read |-> TRUE, write |-> TRUE]
    /\ procs = <<>>
    /\ listed = None
    /\ res = [op |-> "none", id |-> None, status |-> 0, views |-> None]
    /\ reads = [k \in 1 .. Len(library.items) |-> 0]
    /\ steps = 0

NextQuery ==
    \E q \in Queries :
        ListItems(q) /\ UNCHANGED <<categories, tags, io, procs, steps>>

SpecQuery == InitQuery /\ [][NextQuery]_vars

\* ------------------------------------------------ /api/categories
CategoryBodies ==
    [name : {None, Some("Other"), Some("My Maps")},
     icon : {None, Some("pin")}, color : {None}]

\* GET /api/categories (lines 380-383).
ListCategories ==
    /\ Respond("categories", None, 200, None)
    /\ UNCHANGED <<variant, library, uploads, categories, tags, now, reads>>

\* POST /api/categories (lines 385-399): the new entry is pushed whatever the
\* document holds; a body without a name throws at name.toLowerCase().
AddCategory(body) ==
    IF body.name = None
    THEN Throws("addCategory", None) /\ UNCHANGED <<categories, tags>>
    ELSE LET db == IF io.read THEN categories ELSE <<>>
             newCategory == Cat(Dashed(toLowerCase(body.name[1])), body.name[1],
                                OrElse(body.icon, "folder"),
                                OrElse(body.color, "#666666"))
         IN /\ categories' = IF io.write THEN Append(db, newCategory) ELSE categories
            /\ Respond("addCategory", None, 200, None)
            /\ UNCHANGED <<variant, library, uploads, tags, now, reads>>

\* ------------------------------------------------ /api/tags
TagBodies == [tag : {None, Some(""), Some("Ukraine"), Some("Kursk"), Some("ukraine")}]

\* GET /api/tags (lines 401-404).
ListTags ==
    /\ Respond("tags", None, 200, None)
    /\ UNCHANGED <<variant, library, uploads, categories, tags, now, reads>>

\* Array.prototype.includes on an array of strings.
M_includes_Never(s, x) == FALSE
includes(s, x) == \E k \in DOMAIN s : s[k] = x

\* POST /api/tags (lines 406-415): a truthy tag the document does not hold is
\* pushed and the document saved; the answer is a success either way.
AddTag(body) ==
    LET db == IF io.read THEN tags ELSE <<>>
    IN /\ tags' = IF Truthy(body.tag) /\ ~includes(db, body.tag[1]) /\ io.write
                  THEN Append(db, body.tag[1])
                  ELSE tags
       /\ Respond("addTag", body.tag, 200, None)
       /\ UNCHANGED <<variant, library, uploads, categories, now, reads>>

NextTaxonomy ==
    \/ Counted /\ ListCategories /\ UNCHANGED <<io, procs, listed>>
    \/ Counted /\ UNCHANGED <<io, procs, listed>>
               /\ \E body \in CategoryBodies : AddCategory(body)
    \/ Counted /\ ListTags /\ UNCHANGED <<io, procs, listed>>
    \/ Counted /\ UNCHANGED <<io, procs, listed>>
               /\ \E body \in TagBodies : AddTag(body)

SpecTaxonomy == Init /\ [][NextTaxonomy]_vars

\* Every route that writes the items, on notes titled A and uploads.
NextOrder ==
    \/ Counted /\ Tick /\ UNCHANGED Rest
    \/ Counted /\ UNCHANGED Rest
               /\ \E r \in Rands : Create([title |-> Some("A"), type |-> None], r)
    \/ Counted /\ UNCHANGED Rest
               /\ \E r \in Rands :
                     Upload([title |-> None, originalname |-> "r.pdf",
                             mimetype |-> "application/pdf", size |-> 1], r, r)
    \/ Counted /\ UNCHANGED Rest /\ \E id \in IdsIn : Get(id)
    \/ Counted /\ UNCHANGED Rest
               /\ \E id \in IdsIn, body \in TitlePatches : Update(id, body)
    \/ Counted /\ UNCHANGED Rest /\ \E id \in IdsIn : Delete(id)

SpecOrder == InitAny /\ [][NextOrder]_vars

\* ------------------------------------------------ POST /api/import
\* req.body of an import: each document is absent or an object.
ImportBodies ==
    [library : {None, Some(EmptyDb),
                Some([items |-> <<StoredItem("Kyiv", 0, "", <<>>, None)>>,
                      stats |-> [ZeroStats EXCEPT !.totalItems = 1]])},
     categories : {None, Some([categories |-> <<Cat("maps", "Maps", "map", "#00ff00")>>])},
     tags : {None, Some([tags |-> <<"Kursk">>])}]

M_Import_ForgetsTags(body) ==
    /\ library' = IF body.library # None /\ io.write THEN body.library[1] ELSE library
    /\ categories' = IF body.categories # None /\ io.write
                     THEN body.categories[1].categories ELSE categories
    /\ tags' = tags
    /\ reads' = [k \in DOMAIN library'.items |-> library'.items[k].views]
    /\ Respond("import", None, 200, None)
    /\ UNCHANGED <<variant, uploads, now>>

\* Lines 464-474: each document the body holds is saved over the stored
\* one; saveDB does not throw, so the answer is always a success.
Import(body) ==
    /\ library' = IF body.library # None /\ io.write THEN body.library[1] ELSE library
    /\ categories' = IF body.categories # None /\ io.write
                     THEN body.categories[1].categories ELSE categories
    /\ tags' = IF body.tags # None /\ io.write THEN body.tags[1].tags ELSE tags
    /\ reads' = [k \in DOMAIN library'.items |-> library'.items[k].views]
    /\ Respond("import", None, 200, None)
    /\ UNCHANGED <<variant, uploads, now>>

\* Imports between creates, uploads and added tags.
NextImport ==
    \/ Counted /\ UNCHANGED <<io, procs, listed>>
               /\ \E body \in ImportBodies : Import(body)
    \/ Counted /\ UNCHANGED Rest
               /\ \E r \in Rands : Create([title |-> Some("A"), type |-> None], r)
    \/ Counted /\ UNCHANGED Rest
               /\ \E r \in Rands :
                     Upload([title |-> None, originalname |-> "r.pdf",
                             mimetype |-> "application/pdf", size |-> 1], r, r)
    \/ Counted /\ UNCHANGED <<io, procs, listed>>
               /\ \E body \in TagBodies : AddTag(body)

SpecImport == Init /\ [][NextImport]_vars

\* Uploading and deleting only, in either variant.
NextUpload ==
    \/ Counted /\ Tick /\ UNCHANGED Rest
    \/ Counted /\ UploadNoFile /\ UNCHANGED Rest
    \/ Counted /\ UNCHANGED Rest
               /\ \E req \in UploadReqs, rb \in Rands, r \in Rands : Upload(req, rb, r)
    \/ Counted /\ UNCHANGED Rest /\ \E id \in IdsIn : Delete(id)

SpecUpload == InitAny /\ [][NextUpload]_vars

Spec == Init /\ [][Next]_vars

\* ================================================================ claims
Items == library.items
Stats == library.stats
Slots == 1 .. Len(Items)

\* The last request was `op` and it succeeded.
Succeeded(op) == res.op = op /\ res.status = 200

RECURSIVE SumSizes(_)
SumSizes(items) ==
    IF items = <<>> THEN 0
    ELSE (IF Head(items).file # None THEN Head(items).file[1].size ELSE 0)
         + SumSizes(Tail(items))

\* C1: after any sequence of create, upload, get, update and delete requests
\* the persisted stats.totalItems is the number of persisted items.
C1_TotalItems == Stats.totalItems = Len(Items)

\* a delete has succeeded and an item is still held
C1_Witness == Succeeded("delete") /\ Len(Items) >= 1

\* C2: after any such sequence the persisted stats.totalFiles is the number of
\* persisted items whose type is 'file'.
C2_TotalFiles ==
    Stats.totalFiles = Cardinality({k \in Slots : Items[k].type = "file"})

\* C3: after any such sequence the persisted stats.totalLinks is the number of
\* persisted items whose type is 'link'.
C3_TotalLinks ==
    Stats.totalLinks = Cardinality({k \in Slots : Items[k].type = "link"})

\* a delete has succeeded and a counted link is still held
C3_Witness ==
    /\ Succeeded("delete")
    /\ Stats.totalLinks >= 1
    /\ \E k \in Slots : Items[k].type = "link"

\* C4: after any such sequence the persisted stats.totalSize is the sum of
\* file.size over the persisted items that have a file sub-record.
C4_TotalSize == Stats.totalSize = SumSizes(Items)

\* a delete has succeeded and an uploaded item of 2 bytes is still held
C4_Witness ==
    /\ Succeeded("delete")
    /\ uploads # {}
    /\ \E k \in Slots : Items[k].file # None /\ Items[k].file[1].size = 2

\* C5: a persisted item has a file sub-record if and only if its type is 'file'.
C5_FileIffTypeFile ==
    \A k \in Slots : (Items[k].file # None) <=> (Items[k].type = "file")

\* C6: every persisted item has a type in {note, link, file}.
C6_TypeInRange == \A k \in Slots : Items[k].type \in {"note", "link", "file"}

\* C7: no two items of the persisted sequence have the same id.
C7_UniqueIds == \A j, k \in Slots : j # k => Items[j].id # Items[k].id

\* C8: an item's persisted views is 0 at creation, every successful get adds
\* exactly 1 to the views of the item it returns and persists it before the
\* response, and nothing else changes it: each item's persisted views is the
\* number of gets that returned it, and a get's response shows the persisted value.
C8_ViewsCountGets ==
    /\ Len(reads) = Len(Items)
    /\ \A k \in Slots : Items[k].views = reads[k]
    /\ Succeeded("get") =>
         res.views = Some(Items[FindIndex(Items, res.id[1])].views)

\* an item read twice and then updated
C8_Witness ==
    /\ Succeeded("update")
    /\ \E k \in Slots : Items[k].views = 2 /\ Items[k].updated # None

\* The last response is that of the first get that returned its item.
FirstGet == Succeeded("get") /\ reads[FindIndex(Items, res.id[1])] = 1

\* C9 as stated: the first get of an item returns it with views == 0.
C9_FirstGetShowsZero == FirstGet => res.views = Some(0)

\* C9 as amended: the first get of an item returns it with views == 1, the
\* read itself being counted before the body is sent.
C9_FirstGetShowsOne == FirstGet => res.views = Some(1)

\* a create followed by the first get of the created item
C9_Witness == FirstGet /\ steps = 2

\* C10: after a successful delete(id), a get(id) or a second delete(id) yields
\* NotFound and leaves the persisted items, the stats and the blob directory
\* unchanged.
C10_DeletedIsGone ==
    [][ ( /\ Succeeded("delete")
          /\ Get(res.id[1]) \/ Delete(res.id[1]) )
        => ( /\ res'.status = 404
             /\ library' = library
             /\ uploads' = uploads ) ]_vars

\* C12: a create whose title is missing or empty answers 400 and leaves the
\* library, the taxonomy documents and the blob store as they were; any
\* other create answers 200 and puts exactly one new item, carrying the
\* given title, in front of the items that were there.
C12_CreateValidatesTitle ==
    [][ res'.op = "create" =>
        \A body \in CreateBodies, r \in Rands :
          Create(body, r) =>
            IF body.title = None \/ body.title = Some("")
            THEN /\ res'.status = 400
                 /\ library' = library /\ uploads' = uploads
                 /\ categories' = categories /\ tags' = tags
            ELSE /\ res'.status = 200
                 /\ Len(library'.items) = Len(Items) + 1
                 /\ Tail(library'.items) = Items
                 /\ library'.items[1].title = body.title[1]
                 /\ res'.id = Some(library'.items[1].id)
                 /\ uploads' = uploads ]_vars

\* A create was refused while the library already held an item.
C12_Witness == res.op = "create" /\ res.status = 400 /\ Len(Items) > 0

\* What a field holds after an update that overwrites it when present:
\* raw fields hold the value itself, the others hold it as an option.
Written(b, prev, raw) == IF b = None THEN prev ELSE IF raw THEN b[1] ELSE b

\* The update of slot k left every other slot, the stats, the blobs and the
\* fields no update may write as they were, and stamped the item.
UpdateFrame(k) ==
    LET old == Items[k]
        new == library'.items[k]
    IN /\ res'.status = 200
       /\ Len(library'.items) = Len(Items)
       /\ \A j \in Slots \ {k} : library'.items[j] = Items[j]
       /\ library'.stats = Stats /\ uploads' = uploads
       /\ new.updated = Some(now)
       /\ new.id = old.id /\ new.type = old.type /\ new.created = old.created
       /\ new.views = old.views /\ new.file = old.file
       /\ new.fileType = old.fileType /\ new.textPreview = old.textPreview

\* The eight fields of line 332 hold the body's value when the body has one
\* and their old value otherwise (cs says whether country and source count).
ListedFieldsWritten(k, body, cs) ==
    LET old == Items[k]
        new == library'.items[k]
    IN /\ new.title = Written(body.title, old.title, TRUE)
       /\ new.description = Written(body.description, old.description, TRUE)
       /\ new.category = Written(body.category, old.category, TRUE)
       /\ new.tags = Written(body.tags, old.tags, TRUE)
       /\ new.content = Written(body.content, old.content, FALSE)
       /\ new.starred = Written(body.starred, old.starred, TRUE)
       /\ new.country = IF cs THEN Written(body.country, old.country, FALSE) ELSE old.country
       /\ new.source = IF cs THEN Written(body.source, old.source, FALSE) ELSE old.source

\* C11 as stated: an update of an existing item overwrites exactly the fields
\* present in the body (url and country among them), stamps updated, and
\* leaves every other field, item and stat as it was.
C11_OverwritesPresentFields ==
    [][ (res'.op = "update" /\ res'.status = 200) =>
        \A id \in IdsIn, body \in Patches :
          (Update(id, body) /\ FindIndex(Items, id) > 0) =>
             LET k == FindIndex(Items, id)
             IN /\ UpdateFrame(k)
                /\ ListedFieldsWritten(k, body, TRUE)
                /\ library'.items[k].url = Written(body.url, Items[k].url, FALSE) ]_vars

\* C11 amended: an update of an existing item overwrites exactly those of
\* title, description, category, tags, content, starred (and, in the first
\* variant, country and source) that the body holds, stamps updated, and
\* leaves every other field (url included, whatever the body holds), every
\* other item and the stats as they were.
C11_OverwritesListedFields ==
    [][ (res'.op = "update" /\ res'.status = 200) =>
        \A id \in IdsIn, body \in Patches :
          (Update(id, body) /\ FindIndex(Items, id) > 0) =>
             LET k == FindIndex(Items, id)
             IN /\ UpdateFrame(k)
                /\ ListedFieldsWritten(k, body, variant = 1)
                /\ library'.items[k].url = Items[k].url ]_vars

\* An update carrying a title got through after an earlier one had starred
\* the item: the star is kept, the title is the new one.
C11_Witness ==
    /\ Succeeded("update")
    /\ \E k \in Slots : Items[k].starred /\ Items[k].title = "b" /\ Items[k].url = None

\* C13: in either variant, an upload whose media type is neither on the
\* allow-list nor text-prefixed is not answered with success and leaves the
\* items, the stats and the blob directory as they were.
C13_DisallowedUploadRejected ==
    [][ res'.op = "upload" =>
        \A req \in UploadReqs, rb \in Rands, r \in Rands :
          ( /\ Upload(req, rb, r)
            /\ req.mimetype \notin allowedTypes
            /\ ~StartsWith(req.mimetype, "text/") ) =>
               /\ res'.status # 200
               /\ library' = library
               /\ uploads' = uploads ]_vars

\* A request of a route that ends in saveDB(DB_FILES.library, db).
Saving ==
    \/ \E r \in Rands : Create([title |-> Some("A"), type |-> None], r)
    \/ \E req \in UploadReqs, rb \in Rands, r \in Rands : Upload(req, rb, r)
    \/ \E id \in IdsIn : Get(id)
    \/ \E id \in IdsIn, body \in TitlePatches : Update(id, body)
    \/ \E id \in IdsIn : Delete(id)

\* A request of a route that starts with loadDB(DB_FILES.library) and, in
\* the contract, has no fallback: list, get, update, delete.
Loading ==
    \/ List
    \/ \E id \in IdsIn : Get(id)
    \/ \E id \in IdsIn, body \in TitlePatches : Update(id, body)
    \/ \E id \in IdsIn : Delete(id)

\* C14: while the data directory cannot be written, no create, upload, get,
\* update or delete is answered with success.
C14_WriteFailureReported ==
    [][ (~io.write /\ Saving) => res'.status # 200 ]_vars

\* C15: while the data directory cannot be read, every list, get, update and
\* delete is answered with 500 and leaves the persisted documents as they
\* were.
C15_LoadFailureReported ==
    [][ (~io.read /\ Loading) =>
          /\ res'.status = 500
          /\ library' = library /\ categories' = categories /\ tags' = tags ]_vars

\* C16 as stated needs two requests between load and save at once: while one
\* handler has loaded the document and not saved it, a queued request's
\* handler can load the document too.
C16_LoadsInterleave ==
    \A i, j \in DOMAIN procs :
        (procs[i].pc = "loaded" /\ procs[j].pc = "queued") => ENABLED Load(j)

\* C16 amended: however requests overlap, no acknowledged change is lost:
\* the persisted items are one per acknowledged create, each item's views
\* are its acknowledged gets, and totalItems is the number of items.
C16_NoLostUpdate ==
    /\ Len(Items) = Len(reads)
    /\ \A k \in Slots : Items[k].views = reads[k]
    /\ Stats.totalItems = Len(Items)

\* Two creates that were unanswered at the same time have both been
\* answered, and both items are persisted.
C16_Witness ==
    /\ \E i, j \in DOMAIN procs :
          /\ i # j
          /\ procs[i].kind = "create" /\ procs[i].pc = "done" /\ procs[i].met
          /\ procs[j].kind = "create" /\ procs[j].pc = "done" /\ procs[j].met
    /\ Len(Items) = 2

\* ------------------------------------------------ the query engine
\* The body of the last list response, and the query it answers.
Body == listed[1]
Query == listed[1].q

\* The number a query value of decimal digits denotes.
Number(s) == CASE s = "0" -> 0 [] s = "1" -> 1 [] s = "2" -> 2

\* The item holds the term, case-insensitively, in its title, its
\* description, one of its tags or its content.
HasTerm(item, term) ==
    LET t == toLowerCase(term)
    IN \/ Includes(toLowerCase(item.title), t)
       \/ Includes(toLowerCase(item.description), t)
       \/ \E k \in DOMAIN item.tags : Includes(toLowerCase(item.tags[k]), t)
       \/ item.content # None /\ Includes(toLowerCase(item.content[1]), t)

\* The stored slots the query's filter selects (no category, tag or type is
\* asked for in the queries drawn).
Selected == {k \in Slots : Truthy(Query.search) => HasTerm(Items[k], Query.search[1])}

\* The elements off .. off + lim - 1 (from 0) of s, as far as s has them.
Window(s, off, lim) ==
    LET hi == IF off + lim < Len(s) THEN off + lim ELSE Len(s)
    IN [k \in 1 .. (IF hi > off THEN hi - off ELSE 0) |-> s[off + k]]

\* C17: in the first variant, a list returns the window [offset, offset +
\* limit) of the filtered and sorted items, limit 0 giving an empty result,
\* with total the filtered count; absent offset means 0, absent limit 50.
C17_PageIsWindow ==
    (variant = 1 /\ listed # None) =>
        LET full == Sorted(Filtered(Items, Query), Query.sort)
            off == IF Query.offset = None THEN 0 ELSE Number(Query.offset[1])
            lim == IF Query.limit = None THEN DefaultLimit ELSE Number(Query.limit[1])
        IN /\ Body.items = Window(full, off, lim)
           /\ Body.total = Len(full)
           /\ Body.total = Cardinality(Selected)

\* C18: in either variant, a list with a search term counts exactly the
\* stored items holding the term in title, description, a tag or content,
\* and returns only such items.
C18_SearchAllFields ==
    (listed # None /\ Truthy(Query.search)) =>
        /\ Body.total = Cardinality(Selected)
        /\ \A i \in DOMAIN Body.items : HasTerm(Body.items[i], Query.search[1])

\* How often x occurs in s.
Count(s, x) == Cardinality({k \in DOMAIN s : s[k] = x})

\* C19: in the first variant, a list with sort=oldest is in non-decreasing
\* created order, with sort=title in ascending title order, otherwise in
\* non-increasing created order; without offset and limit the returned
\* items are a permutation of the filtered items.
C19_SortOrders ==
    (variant = 1 /\ listed # None) =>
        /\ \A i, j \in DOMAIN Body.items :
              i < j =>
                LET a == Body.items[i]
                    b == Body.items[j]
                IN IF Query.sort = Some("oldest") THEN a.created <= b.created
                   ELSE IF Query.sort = Some("title")
                   THEN Collation(a.title) <= Collation(b.title)
                   ELSE a.created >= b.created
        /\ (Query.offset = None /\ Query.limit = None) =>
              \A x \in StoredItems :
                 Count(Body.items, x) = Cardinality({k \in Selected : Items[k] = x})

\* A list by title returned three items in another order than the stored
\* one, and they were not stored oldest first.
C19_Witness ==
    /\ variant = 1 /\ listed # None
    /\ Query.sort = Some("title") /\ Query.limit = None /\ Query.offset = None
    /\ Len(Body.items) = 3 /\ Body.items # Items
    /\ Items[1].created > Items[2].created

\* C20: the category collection holds at most one entry per id.
C20_OneEntryPerId ==
    \A i, j \in DOMAIN categories :
        categories[i].id = categories[j].id => i = j

\* C21: adding a tag the list holds leaves the list as it was; every step
\* leaves a list without duplicates that starts with the tags held before,
\* in their order.
C21_AddTagIdempotent ==
    [][ /\ \A i, j \in DOMAIN tags' : tags'[i] = tags'[j] => i = j
        /\ Len(tags') >= Len(tags)
        /\ SubSeq(tags', 1, Len(tags)) = tags
        /\ res'.op = "addTag" =>
              \A body \in TagBodies :
                 (AddTag(body) /\ body.tag # None
                    /\ \E k \in DOMAIN tags : tags[k] = body.tag[1]) => tags' = tags ]_vars

\* A seeded tag was added again after a new tag had been added: the list
\* holds the seeds and the new tag, once each.
C21_Witness ==
    /\ res.op = "addTag" /\ res.id = Some("Ukraine")
    /\ tags = DefaultTags \o <<"Kursk">>

\* C22: a create or an upload puts its item in front of the items held
\* before, which keep their order; a delete takes one item out and a get or
\* an update none, without moving the others; so the stored items are
\* always newest first. (A step that keeps the clock is a request, and res'
\* is its answer.)
C22_NewestFirst ==
    [][ /\ \A i, j \in DOMAIN library'.items :
              i < j => library'.items[i].created >= library'.items[j].created
        /\ (now' = now /\ res'.status = 200) =>
              LET old == Items
                  new == library'.items
              IN CASE res'.op \in {"create", "upload"} ->
                        /\ Len(new) = Len(old) + 1
                        /\ new[1].id = res'.id[1]
                        /\ \A k \in DOMAIN old : new[k + 1] = old[k]
                   [] res'.op = "delete" ->
                        /\ Len(new) = Len(old) - 1
                        /\ \E k \in DOMAIN old :
                              /\ old[k].id = res'.id[1]
                              /\ \A j \in DOMAIN new :
                                    new[j] = IF j < k THEN old[j] ELSE old[j + 1]
                   [] res'.op \in {"get", "update"} ->
                        /\ Len(new) = Len(old)
                        /\ \A k \in DOMAIN old :
                              new[k].id = old[k].id /\ new[k].created = old[k].created
                   [] OTHER -> new = old ]_vars

\* An upload was put in front of an older note, and an update has been
\* answered since.
C22_Witness ==
    /\ Succeeded("update")
    /\ Len(Items) = 2
    /\ Items[1].type = "file" /\ Items[2].type = "note"
    /\ Items[1].created > Items[2].created

\* C23: an import answers success, replaces each of the three documents
\* its body holds by the content supplied, leaves the documents its body
\* does not hold as they were, and leaves the blob directory alone.
C23_ImportOverwritesSupplied ==
    [][ res'.op = "import" =>
        \A body \in ImportBodies :
           Import(body) =>
             /\ res'.status = 200
             /\ IF body.library = None THEN library' = library
                ELSE /\ library'.items = body.library[1].items
                     /\ library'.stats = body.library[1].stats
             /\ IF body.categories = None THEN categories' = categories
                ELSE categories' = body.categories[1].categories
             /\ IF body.tags = None THEN tags' = tags
                ELSE tags' = body.tags[1].tags
             /\ uploads' = uploads ]_vars

\* An import that held only tags came after an upload: the tags are the
\* imported ones, the item, the categories and the blob are still there.
C23_Witness ==
    /\ res.op = "import" /\ res.status = 200
    /\ tags = <<"Kursk">>
    /\ categories = DefaultCategories
    /\ Len(Items) = 1 /\ Items[1].type = "file"
    /\ uploads # {}

\* C24: every persisted item with a file sub-record has its blob in the
\* blob directory, also after writes of the items document have failed.
C24_BlobPresent ==
    \A k \in Slots :
        Items[k].file # None => Items[k].file[1].filename \in uploads
====
